---- MODULE Spec2Model ----
(***************************************************************************)
(* Evolutionary algorithm for the N Queen problem (ec.py).                 *)
(*                                                                         *)
(* The program state is one record (run): the module globals of ec.py      *)
(* (population, current_iteration, child_1, child_2), the Queen objects    *)
(* they reference (heap: object identity -> object, so that two references *)
(* to one object are distinguishable from two equal objects), and the      *)
(* position of the main thread (pc, plus the live locals i, pivot, point). *)
(* Three fields record what the program wrote or drew rather than what it  *)
(* holds: reported (the report print_info printed), mutations (how many    *)
(* rolls have triggered a mutation) and prev_best (the best fitness the    *)
(* last evaluation of the loop guard saw).                                 *)
(* Every action is written over a pair (s, t) of such records, so that a   *)
(* second run (twin) can be stepped side by side with the first one.       *)
(*                                                                         *)
(* Rows are 1..n in the model (0..n-1 in the source); column values are    *)
(* the source's, 0..n-1.  A draw of random.randrange(k) is a choice in     *)
(* 0..k-1.                                                                 *)
(***************************************************************************)
EXTENDS Integers, Sequences, FiniteSets, TLC

VARIABLES run, twin

vars == <<run, twin>>

---------------------------------------------------------------------------
(* Sizes.                                                                  *)

\* The smallest board size the program accepts (if n < 4: quit).
MinBoardSize == 4

\* n = int(sys.argv[1]); the model runs the smallest accepted board.
n == MinBoardSize

\* population_size = 10 in the source; scaled down for the model.
population_size == 2

\* probability_of_mutation = 50 in the source.
probability_of_mutation == 50

\* max_iterations = 10000 in the source; scaled down for the model.
max_iterations == 2

\* The argument of random.randrange(100), the mutation roll.
RollRange == 100

\* How many rolls of one run's random stream may trigger a mutation.
MaxMutations == 1

\* The boards Queen(n) may draw for the initial population (a sample of the
\* n^n equally likely ones): one of fitness 2, a single mutation away from
\* the solution <<1, 3, 0, 2>>, and one of fitness 0.
InitialBoards == {<<0, 3, 0, 2>>, <<0, 0, 0, 0>>}

\* An unbound name: child_1 and child_2 before the first iteration, a local
\* outside its statement.
None == 0

---------------------------------------------------------------------------
(* Queen (queen.py, not among the sources: modelled from the               *)
(* specification, sections 3 and 4.1).                                     *)

Abs(x) == IF x < 0 THEN -x ELSE x

\* Two queens in rows r1 # r2 attack each other iff they share a column or
\* a diagonal.
Attacks(board, r1, r2) ==
    \/ board[r1] = board[r2]
    \/ Abs(r1 - r2) = Abs(board[r1] - board[r2])

\* The number of queens that attack, and are attacked by, no other queen.
Fitness(board) ==
    Cardinality({r1 \in 1..Len(board) :
                    \A r2 \in 1..Len(board) : r2 # r1 => ~Attacks(board, r1, r2)})

\* Queen.update_valid_queens(): refresh the cached fitness.
update_valid_queens(q) == [q EXCEPT !.valid_queens = Fitness(q.board)]

\* Queen(n) for the drawn positions: a Board with its fitness computed.
Queen(board) == update_valid_queens([board |-> board, valid_queens |-> 0])

\* Queen.__lt__: Boards are ordered by fitness alone.
QueenLess(a, b) == a.valid_queens < b.valid_queens

---------------------------------------------------------------------------
(* Helpers: the heap of Queen objects and Python's list operations.        *)

Range(seq) == {seq[k] : k \in 1..Len(seq)}

Restrict(h, ids) == [id \in ids \cap DOMAIN h |-> h[id]]

\* The identity of a newly allocated object: one no live object has.
FreshId(used) == CHOOSE id \in 1..(Cardinality(used) + 1) :
                    /\ id \notin used
                    /\ \A k \in 1..(id - 1) : k \in used

\* Reference counting: an object lives while the population or one of the
\* globals child_1, child_2 references it.
Live(s) == Range(s.population) \cup ({s.child_1, s.child_2} \ {None})

Collect(s) == [s EXCEPT !.heap = Restrict(s.heap, Live(s))]

\* The place list.sort(reverse=True) gives the element at index j: after
\* every element that is greater, and after the equal ones before it (the
\* sort is stable, also when reversed).
Rank(pop, h, j) ==
    1 + Cardinality({k \in 1..Len(pop) :
                        \/ QueenLess(h[pop[j]], h[pop[k]])
                        \/ /\ ~QueenLess(h[pop[k]], h[pop[j]])
                           /\ k < j})

ListSortReverse(pop, h) ==
    [r \in 1..Len(pop) |-> pop[CHOOSE j \in 1..Len(pop) : Rank(pop, h, j) = r]]

\* Descending by fitness, equal Boards in any order: a sort that is not stable.
sort_unstable(pop, h) ==
    {p \in [1..Len(pop) -> Range(pop)] :
        /\ \A id \in Range(pop) :
              Cardinality({k \in 1..Len(pop) : p[k] = id})
                  = Cardinality({k \in 1..Len(pop) : pop[k] = id})
        /\ \A j, k \in 1..Len(pop) : j < k => ~QueenLess(h[p[j]], h[p[k]])}

\* population.sort(reverse=True): the orders the call may leave.
sort(pop, h) == {ListSortReverse(pop, h)}

\* population[:population_size + 1]
slice_one_more(pop) == SubSeq(pop, 1, IF Len(pop) < population_size + 1
                                         THEN Len(pop) ELSE population_size + 1)

\* population[:population_size]
slice(pop) == SubSeq(pop, 1, IF Len(pop) < population_size
                                THEN Len(pop) ELSE population_size)

---------------------------------------------------------------------------
(* The operators.                                                          *)

\* board itself instead of a copy of it.
alias(original, fresh) == original

\* deepcopy(board): the reference the copy is known by, fresh being the
\* identity of the newly built object.
deepcopy(original, fresh) == fresh

\* for i in range(pivot, n): child_1.board[i] = board_2.board[i]
\*                           child_2.board[i] = board_1.board[i]
\* run statement by statement on the heap, from row i on.
RECURSIVE Exchange(_, _, _, _, _, _)
Exchange(h, c1, c2, b1, b2, i) ==
    IF i > n THEN h
    ELSE LET h1 == [h EXCEPT ![c1].board[i] = h[b2].board[i]]
             h2 == [h1 EXCEPT ![c2].board[i] = h1[b1].board[i]]
         IN  Exchange(h2, c1, c2, b1, b2, i + 1)

\* range(pivot + 1, n)
ExchangeAfter(pivot) == pivot + 2

\* range(pivot, n), as rows of the model.
ExchangeFrom(pivot) == pivot + 1

\* permutation(board_1, board_2, n) with the pivot it drew: the heap it
\* leaves and the two children it returns.
permutation(h, board_1, board_2, pivot) ==
    LET f1 == FreshId(DOMAIN h)
        f2 == FreshId(DOMAIN h \cup {f1})
        child_1 == deepcopy(board_1, f1)
        child_2 == deepcopy(board_2, f2)
        h0 == (f1 :> h[board_1]) @@ (f2 :> h[board_2]) @@ h
        h1 == Exchange(h0, child_1, child_2, board_1, board_2, ExchangeFrom(pivot))
        h2 == [h1 EXCEPT ![child_1] = update_valid_queens(@)]
        h3 == [h2 EXCEPT ![child_2] = update_valid_queens(@)]
    IN  [heap |-> h3, child_1 |-> child_1, child_2 |-> child_2]

\* random.randrange(n + 1)
MutationColumnsOneMore == 0..n

\* The values random.randrange(n) draws for the mutated queen's column.
MutationColumns == 0..(n - 1)

\* The queens of rows point and column change places.
mutation_swap(h, board, point, column) ==
    [h EXCEPT ![board].board[point + 1] = h[board].board[column + 1],
              ![board].board[column + 1] = h[board].board[point + 1]]

\* mutation(board, n), its write: board.board[point] = column.
mutation_write(h, board, point, column) ==
    [h EXCEPT ![board].board[point + 1] = column]

\* if random_number > (100 - probability_of_mutation)
Triggers(random_number) == random_number > (100 - probability_of_mutation)

\* ... and current_iteration <= max_iterations
LoopConditionOneMore(s) ==
    /\ s.heap[s.population[1]].valid_queens # n
    /\ s.current_iteration <= max_iterations

\* while population[0].valid_queens != n and current_iteration < max_iterations
LoopCondition(s) ==
    /\ s.heap[s.population[1]].valid_queens # n
    /\ s.current_iteration < max_iterations

\* for board in population[2:]: the two parents are spared.
FirstAfterParents(pop) == 3

\* for board in population: the index of the first Board the pass visits.
First(pop) == 1

\* print_info(): what the report shows (the seed apart).
print_info(s) ==
    [iteration |-> s.current_iteration,
     board |-> s.heap[s.population[1]].board,
     valid_queens |-> s.heap[s.population[1]].valid_queens]

---------------------------------------------------------------------------
(* The main thread, statement by statement.                                *)

\* Lines 141-150: the initial population, sorted, for the boards drawn.
InitialState(boards, pop) ==
    [pc |-> "while",
     population |-> pop,
     heap |-> [id \in 1..population_size |-> Queen(boards[id])],
     current_iteration |-> 0,
     child_1 |-> None, child_2 |-> None,
     pivot |-> None, i |-> None, point |-> None,
     mutations |-> 0,
     prev_best |-> None,
     reported |-> <<>>]

InitialStates ==
    UNION {LET h == [id \in 1..population_size |-> Queen(boards[id])]
           IN  {InitialState(boards, pop) :
                    pop \in sort([id \in 1..population_size |-> id], h)} :
           boards \in [1..population_size -> InitialBoards]}

\* The while test.  prev_best records the best fitness this test saw.
LoopTest(s, t) ==
    /\ s.pc = "while"
    /\ t = [s EXCEPT !.pc = IF LoopCondition(s) THEN "increment" ELSE "print_info",
                     !.prev_best = s.heap[s.population[1]].valid_queens]

\* current_iteration += 1
Increment(s, t) ==
    /\ s.pc = "increment"
    /\ t = [s EXCEPT !.current_iteration = @ + 1, !.pc = "permutation"]

\* child_1, child_2 = permutation(population[0], population[1], n)
Permutation(s, t, pivot) ==
    /\ s.pc = "permutation"
    /\ LET r == permutation(Restrict(s.heap, Range(s.population)),
                            s.population[1], s.population[2], pivot)
       IN  t = Collect([s EXCEPT !.heap = r.heap,
                                 !.child_1 = r.child_1,
                                 !.child_2 = r.child_2,
                                 !.pivot = pivot,
                                 !.pc = "append_1"])

\* population.append(child_1)
AppendChild1(s, t) ==
    /\ s.pc = "append_1"
    /\ t = [s EXCEPT !.population = Append(@, s.child_1),
                     !.pivot = None,
                     !.pc = "append_2"]

\* population.append(child_2)
AppendChild2(s, t) ==
    /\ s.pc = "append_2"
    /\ t = [s EXCEPT !.population = Append(@, s.child_2),
                     !.i = First(Append(s.population, s.child_2)),
                     !.pc = "for"]

\* for board in population: random_number = random.randrange(100); if ...
ForRoll(s, t, random_number) ==
    /\ s.pc = "for"
    /\ s.i <= Len(s.population)
    /\ Triggers(random_number) => s.mutations < MaxMutations
    /\ t = IF Triggers(random_number)
           THEN [s EXCEPT !.pc = "mutation"]
           ELSE [s EXCEPT !.i = @ + 1]

\* The for loop is exhausted.
ForExit(s, t) ==
    /\ s.pc = "for"
    /\ s.i > Len(s.population)
    /\ t = [s EXCEPT !.i = None, !.pc = "sort"]

\* mutation(board, n): point = random.randrange(n)
\*                     board.board[point] = random.randrange(n)
MutationWrite(s, t, point, column) ==
    /\ s.pc = "mutation"
    /\ t = [s EXCEPT !.heap = mutation_write(@, s.population[s.i], point, column),
                     !.point = point + 1,
                     !.mutations = @ + 1,
                     !.pc = "update_valid_queens"]

\* mutation(board, n): board.update_valid_queens(), and on to the next board.
MutationUpdate(s, t) ==
    /\ s.pc = "update_valid_queens"
    /\ t = [s EXCEPT !.heap[s.population[s.i]] = update_valid_queens(@),
                     !.point = None,
                     !.i = @ + 1,
                     !.pc = "for"]

\* population.sort(reverse=True)
Sort(s, t) ==
    /\ s.pc = "sort"
    /\ \E pop \in sort(s.population, s.heap) :
          t = [s EXCEPT !.population = pop, !.pc = "slice"]

\* population = population[:population_size]
Slice(s, t) ==
    /\ s.pc = "slice"
    /\ t = Collect([s EXCEPT !.population = slice(@), !.pc = "while"])

\* print_info() after the loop.
PrintInfo(s, t) ==
    /\ s.pc = "print_info"
    /\ t = [s EXCEPT !.reported = print_info(s), !.pc = "done"]

\* The statements of the loop: SIGINT is handled between any two of them.
LoopStatements ==
    {"while", "increment", "permutation", "append_1", "append_2", "for",
     "mutation", "update_valid_queens", "sort", "slice"}

\* SIGINT between two statements of the loop: signal_handler runs whole,
\* print_info() and sys.exit(0).
signal_handler(s, t) ==
    /\ s.pc \in LoopStatements
    /\ t = [s EXCEPT !.reported = print_info(s), !.pc = "exit"]

-------------------------------------------------------------------------------------------------------------------------------------------------
(* One run: the first run steps, the second one stays where it started.    *)

Init ==
    /\ run \in InitialStates
    /\ twin = run

DoLoopTest == LoopTest(run, run') /\ UNCHANGED twin

DoIncrement == Increment(run, run') /\ UNCHANGED twin

DoPermutation ==
    /\ \E pivot \in 0..(n - 1) : Permutation(run, run', pivot)
    /\ UNCHANGED twin

DoAppendChild1 == AppendChild1(run, run') /\ UNCHANGED twin

DoAppendChild2 == AppendChild2(run, run') /\ UNCHANGED twin

DoForRoll ==
    /\ \E random_number \in 0..(RollRange - 1) : ForRoll(run, run', random_number)
    /\ UNCHANGED twin

DoForExit == ForExit(run, run') /\ UNCHANGED twin

DoMutationWrite ==
    /\ \E point \in 0..(n - 1) : \E column \in MutationColumns :
          MutationWrite(run, run', point, column)
    /\ UNCHANGED twin

DoMutationUpdate == MutationUpdate(run, run') /\ UNCHANGED twin

DoSort == Sort(run, run') /\ UNCHANGED twin

DoSlice == Slice(run, run') /\ UNCHANGED twin

DoPrintInfo == PrintInfo(run, run') /\ UNCHANGED twin

DoSignalHandler == signal_handler(run, run') /\ UNCHANGED twin

\* The statements of the main thread.
MainNext ==
    \/ DoLoopTest
    \/ DoIncrement
    \/ DoPermutation
    \/ DoAppendChild1
    \/ DoAppendChild2
    \/ DoForRoll
    \/ DoForExit
    \/ DoMutationWrite
    \/ DoMutationUpdate
    \/ DoSort
    \/ DoSlice
    \/ DoPrintInfo

Next ==
    \/ MainNext
    \/ DoSignalHandler

Spec == Init /\ [][Next]_vars

---------------------------------------------------------------------------
(* Two runs of the same board size, stepped side by side on one stream of  *)
(* random values: every draw is handed to both.  No signal is delivered.   *)

BothLoopTest == LoopTest(run, run') /\ LoopTest(twin, twin')

BothIncrement == Increment(run, run') /\ Increment(twin, twin')

BothPermutation ==
    \E pivot \in 0..(n - 1) :
        Permutation(run, run', pivot) /\ Permutation(twin, twin', pivot)

BothAppendChild1 == AppendChild1(run, run') /\ AppendChild1(twin, twin')

BothAppendChild2 == AppendChild2(run, run') /\ AppendChild2(twin, twin')

BothForRoll ==
    \E random_number \in 0..(RollRange - 1) :
        ForRoll(run, run', random_number) /\ ForRoll(twin, twin', random_number)

BothForExit == ForExit(run, run') /\ ForExit(twin, twin')

BothMutationWrite ==
    \E point \in 0..(n - 1) : \E column \in MutationColumns :
        /\ MutationWrite(run, run', point, column)
        /\ MutationWrite(twin, twin', point, column)

BothMutationUpdate == MutationUpdate(run, run') /\ MutationUpdate(twin, twin')

BothSort == Sort(run, run') /\ Sort(twin, twin')

BothSlice == Slice(run, run') /\ Slice(twin, twin')

BothPrintInfo == PrintInfo(run, run') /\ PrintInfo(twin, twin')

TwinNext ==
    \/ BothLoopTest
    \/ BothIncrement
    \/ BothPermutation
    \/ BothAppendChild1
    \/ BothAppendChild2
    \/ BothForRoll
    \/ BothForExit
    \/ BothMutationWrite
    \/ BothMutationUpdate
    \/ BothSort
    \/ BothSlice
    \/ BothPrintInfo

TwinSpec == Init /\ [][TwinNext]_vars

---------------------------------------------------------------------------
(* Properties.                                                             *)

Board(s, k) == s.heap[s.population[k]].board

Stored(s, k) == s.heap[s.population[k]].valid_queens

Indices(s) == 1..Len(s.population)

SortedDescending(s) == \A j, k \in Indices(s) : j < k => Stored(s, j) >= Stored(s, k)

FitnessFresh(s) == \A k \in Indices(s) : Stored(s, k) = Fitness(Board(s, k))

BestFirst(s) ==
    \A k \in Indices(s) : Fitness(Board(s, 1)) >= Fitness(Board(s, k))

\* The statements one iteration executes at most: the test, the increment,
\* permutation, two appends, three per Board of the pass (roll, write,
\* update), the end of the pass, the sort and the slice.
IterationSteps == 3 * (population_size + 2) + 8

\* The statements left in the iteration a run is in.
Remaining(s) ==
    CASE s.pc \in {"done", "exit"} -> 0
      [] s.pc = "print_info" -> 1
      [] s.pc = "increment" -> 2
      [] s.pc = "while" -> 3
      [] s.pc = "slice" -> 4
      [] s.pc = "sort" -> 5
      [] s.pc = "for" -> 6 + 3 * (Len(s.population) + 1 - s.i)
      [] s.pc = "mutation" -> 5 + 3 * (Len(s.population) + 1 - s.i)
      [] s.pc = "update_valid_queens" -> 4 + 3 * (Len(s.population) + 1 - s.i)
      [] s.pc = "append_2" -> IterationSteps - 1
      [] s.pc = "append_1" -> IterationSteps
      [] s.pc = "permutation" -> IterationSteps + 1

\* A bound on the statements a run has left to execute.
StepsLeft(s) ==
    IF s.pc \in {"done", "exit", "print_info"}
    THEN Remaining(s)
    ELSE (max_iterations - s.current_iteration) * IterationSteps + Remaining(s)

\* C1: the loop halts within a bounded number of steps: current_iteration
\* never exceeds max_iterations, the loop is left only with
\* population[0].valid_queens = n or with current_iteration = max_iterations,
\* and every statement executed lowers a bound (a natural number) on the
\* statements left, so that no run goes on forever.
C1_LoopHalts ==
    /\ [](/\ run.current_iteration <= max_iterations
          /\ StepsLeft(run) \in Nat
          /\ run.pc \in {"print_info", "done"} =>
                \/ Stored(run, 1) = n
                \/ run.current_iteration = max_iterations)
    /\ [][StepsLeft(run') < StepsLeft(run)]_vars

\* The loop was left by exhaustion of max_iterations, no solution found.
C1_Witness ==
    /\ run.pc = "done"
    /\ run.current_iteration = max_iterations
    /\ Stored(run, 1) # n
    /\ run.mutations > 0

\* C2: the population signal_handler reports from has exactly
\* population_size Boards, sorted descending by fitness, every stored fitness
\* that of its positions, population[0] of maximal fitness, and the report
\* shows that Board.
C2_CleanInterruptReport ==
    run.pc = "exit" =>
        /\ run.reported = print_info(run)
        /\ Len(run.population) = population_size
        /\ FitnessFresh(run)
        /\ SortedDescending(run)
        /\ BestFirst(run)

\* C3: of the RollRange values of the roll, exactly probability_of_mutation
\* trigger the mutation of the Board the pass is at.
C3_MutationProbability ==
    (run.pc = "for" /\ run.i <= Len(run.population)) =>
        Cardinality({r \in 0..(RollRange - 1) : Triggers(r)}) = probability_of_mutation

\* C4: at every evaluation of the loop guard the population has exactly
\* population_size Boards, sorted descending by fitness, population[0] of
\* maximal fitness; its length is always within
\* population_size .. population_size + 2.
C4_PopulationInvariant ==
    /\ Len(run.population) >= population_size
    /\ Len(run.population) <= population_size + 2
    /\ run.pc = "while" =>
          /\ Len(run.population) = population_size
          /\ FitnessFresh(run)
          /\ SortedDescending(run)
          /\ BestFirst(run)

\* The guard is evaluated after an iteration that mutated a Board.
C4_Witness ==
    /\ run.pc = "while"
    /\ run.current_iteration > 0
    /\ run.mutations > 0

\* What a run shows: its position, its Boards in population order with
\* their fitness, the iteration count and the report.
Observed(s) ==
    [pc |-> s.pc,
     current_iteration |-> s.current_iteration,
     boards |-> [k \in Indices(s) |-> s.heap[s.population[k]]],
     reported |-> s.reported]

C6_Crossover ==
    [][(run.pc = "permutation" /\ run'.pc = "append_1") =>
         LET A == Board(run, 1)
             B == Board(run, 2)
             p == run'.pivot
             c1 == run'.heap[run'.child_1]
             c2 == run'.heap[run'.child_2]
         IN  /\ p \in 0..(n - 1)
             /\ c1.board = [r \in 1..n |-> IF r - 1 < p THEN A[r] ELSE B[r]]
             /\ c2.board = [r \in 1..n |-> IF r - 1 < p THEN B[r] ELSE A[r]]
             /\ p = 0 => (c1.board = B /\ c2.board = A)
             /\ c1.valid_queens = Fitness(c1.board)
             /\ c2.valid_queens = Fitness(c2.board)]_vars

\* permutation has returned with pivot 0, from parents that differ.
C6_Witness ==
    /\ run.pc = "append_1"
    /\ run.pivot = 0
    /\ Board(run, 1) # Board(run, 2)
    /\ run.heap[run.child_1].board = Board(run, 2)

ParentIndices == {1, 2}

ChildIndices == {population_size + 1, population_size + 2}

\* C7: permutation leaves every Board of the population as it was and
\* returns two new objects; in the pass that follows, the mutation of a
\* child leaves both parents as they were, and the mutation of a parent
\* leaves both children as they were.
C7_ChildrenIndependent ==
    [][/\ (run.pc = "permutation" /\ run'.pc = "append_1") =>
            /\ run'.population = run.population
            /\ \A k \in Indices(run) :
                  run'.heap[run.population[k]] = run.heap[run.population[k]]
            /\ run'.child_1 \notin Range(run.population)
            /\ run'.child_2 \notin Range(run.population)
            /\ run'.child_1 # run'.child_2
       /\ run.pc \in {"mutation", "update_valid_queens"} =>
            /\ run.i \in ChildIndices =>
                  \A k \in ParentIndices :
                      run'.heap[run.population[k]] = run.heap[run.population[k]]
            /\ run.i \in ParentIndices =>
                  \A k \in ChildIndices :
                      run'.heap[run.population[k]] = run.heap[run.population[k]]]_vars

\* mutation has just written a row of a child, while both parents are in the
\* population.
C7_Witness ==
    /\ run.pc = "update_valid_queens"
    /\ run.i \in ChildIndices
    /\ Stored(run, run.i) # Fitness(Board(run, run.i))

\* C8: mutation changes the positions of its Board in at most the one row
\* it drew (not at all when it draws the queen's column), changes the
\* positions of no other Board of the population, and leaves the Board
\* with the fitness of its new positions.
C8_MutationLocal ==
    [][/\ (run.pc = "mutation" /\ run'.pc = "update_valid_queens") =>
            /\ run'.population = run.population
            /\ run'.point \in 1..n
            /\ \A r \in 1..n :
                  r # run'.point => Board(run', run.i)[r] = Board(run, run.i)[r]
            /\ Len(Board(run', run.i)) = n
            /\ \A k \in Indices(run) : k # run.i => Board(run', k) = Board(run, k)
       /\ (run.pc = "update_valid_queens" /\ run'.pc = "for") =>
            /\ run'.population = run.population
            /\ \A k \in Indices(run) : Board(run', k) = Board(run, k)
            /\ Stored(run', run.i) = Fitness(Board(run', run.i))]_vars

\* mutation has written a row and the stored fitness is not yet that of the
\* new positions.
C8_Witness ==
    /\ run.pc = "update_valid_queens"
    /\ Stored(run, run.i) # Fitness(Board(run, run.i))
    /\ run.i \in ParentIndices

\* C9: every Board, at every point, has exactly n positions, each in
\* 0..n-1.
C9_WellFormed ==
    \A id \in DOMAIN run.heap :
        /\ Len(run.heap[id].board) = n
        /\ \A r \in 1..n : run.heap[id].board[r] \in 0..(n - 1)

\* A population of parents, children and mutated Boards, before truncation.
C9_Witness ==
    /\ run.pc = "slice"
    /\ run.current_iteration = max_iterations
    /\ run.mutations = MaxMutations

\* C10: the mutation pass visits every Board of the population in place,
\* population[0] and population[1] included: it starts at the first Board,
\* advances one Board at a time, ends only past the last one, and a
\* triggering roll mutates the very Board the pass is at.
C10_ElitesNotProtected ==
    [][/\ (run.pc = "append_2" /\ run'.pc = "for") => run'.i = 1
       /\ (run.pc = "for" /\ run'.pc = "for") => run'.i = run.i + 1
       /\ (run.pc = "for" /\ run'.pc = "sort") => run.i = Len(run.population) + 1
       /\ (run.pc = "for" /\ run'.pc = "mutation") =>
            /\ run'.i = run.i
            /\ run.i \in Indices(run)
       /\ (run.pc = "update_valid_queens" /\ run'.pc = "for") =>
            /\ run'.i = run.i + 1
            /\ run'.population = run.population]_vars

\* The guard sees a best fitness strictly lower than the one it saw at its
\* previous evaluation.
C10_Witness ==
    /\ run.pc = "while"
    /\ run.current_iteration > 0
    /\ Stored(run, 1) < run.prev_best

====
